---- MODULE Spec2Model ----
(***************************************************************************)
(* Data-access layer of the CRM front end (services/api.ts): the row-store *)
(* gateway apiRequest, authService, userService and leadService, over the  *)
(* browser's sessionStorage and a remote row store.                        *)
(*                                                                         *)
(* The repository holds six revisions of the module; `rev` says which one  *)
(* is deployed:                                                            *)
(*   1  src/services/api.ts     1..221                                     *)
(*   2  src/services/api.ts   224..446                                     *)
(*   3  src/services/api.ts   449..752                                     *)
(*   4  src/services/api.ts   754..966                                     *)
(*   5  src/services/api.ts   969..1163                                    *)
(*   6  src/unnamed/part_001    1..206                                     *)
(*                                                                         *)
(* JavaScript strings that the code trims, lower-cases or searches are     *)
(* sequences of characters (emails, passwords) or of tokens (messages,     *)
(* sheet identifiers); other strings are atoms.  An object is a record; a  *)
(* property that is undefined is a field that is not in the record.        *)
(*                                                                         *)
(* Four specifications share the variables:                                *)
(*   Spec      authService and the collection reads, over the session store *)
(*   UiSpec    AuthProvider (src/unnamed/part_002) on top of authService    *)
(*   UserSpec  userService as UsersPage calls it (src/unnamed/part_004)     *)
(*   LeadSpec  leadService as LeadsPage calls it, with a clock and with     *)
(*             update requests in flight                                    *)
(*   LeadsPageSpec  LeadsPage's data fetch and derived list (part_004)      *)
(*   UsersPageSpec  UsersPage's fetch effect and delete handler (part_004)  *)
(*   AuthLiveSpec   AuthProvider with its calls in flight (part_002)        *)
(***************************************************************************)
EXTENDS Integers, Sequences, FiniteSets, TLC

VARIABLES rev, users, leads, session, last, expected,
          user, isLoading, now, inflight, page, calls

\* AuthProvider's React state
uiVars == <<user, isLoading>>
\* the clock and the update requests on their way to the store
svcVars == <<now, inflight>>
\* the React state of the page that is mounted (UsersPage, LeadsPage), and
\* its calls and effects that are still to run
pageVars == <<page, calls>>

vars == <<rev, users, leads, session, last, expected, uiVars, svcVars, pageVars>>

\* ------------------------------------------------------------------ bounds
MaxUsers == 2
MaxLeads == 1

Revisions == 1..6

\* revisions whose login asks the server (login=true query), api.ts:532, 833
ServerLoginRevs == {3, 4}

\* ----------------------------------------------------------------- strings
Chars == {"a", "A", "b", "p", "P", "q", " "}

\* String.prototype.toLowerCase, one character
LowerChar(c) == IF c = "A" THEN "a" ELSE IF c = "P" THEN "p" ELSE c

toLowerCase(s) == [i \in 1..Len(s) |-> LowerChar(s[i])]

RECURSIVE trimStart(_)
trimStart(s) == IF s # <<>> /\ Head(s) = " " THEN trimStart(Tail(s)) ELSE s

RECURSIVE trimEnd(_)
trimEnd(s) ==
    IF s # <<>> /\ s[Len(s)] = " " THEN trimEnd(SubSeq(s, 1, Len(s) - 1)) ELSE s

\* String.prototype.trim
trim(s) == trimEnd(trimStart(s))

\* String.prototype.includes on token sequences
includes(msg, needle) ==
    \E i \in 1..(Len(msg) - Len(needle) + 1) :
        SubSeq(msg, i, i + Len(needle) - 1) = needle

\* ------------------------------------------------------------- JS values
Undefined == [t |-> "undefined"]
Null      == [t |-> "null"]
Arr(items) == [t |-> "arr", items |-> items]
Obj(o)     == [t |-> "obj", obj |-> o]

isArray(v) == v.t = "arr"

\* property read: an absent property is undefined, and is not truthy
has(o, f) == f \in DOMAIN o
\* truthiness of a property that holds an atom (id, role) or a character
\* sequence (email): undefined and the empty string are falsy
truthyAtom(o, f) == has(o, f) /\ o[f] # ""
truthyChars(o, f) == has(o, f) /\ o[f] # <<>>

\* { f1: o.f1, ... } : the properties of o among F
pick(o, F) == [k \in DOMAIN o \cap F |-> o[k]]

\* const { f, ...rest } = o
omit(o, f) == [k \in DOMAIN o \ {f} |-> o[k]]

\* ---------------------------------------------------- texts (HTTP bodies,
\* stored strings): empty, not JSON, or the JSON text of a value
EmptyText   == [k |-> "empty"]
GarbageText == [k |-> "garbage"]
JsonText(v) == [k |-> "json", val |-> v]

Ok(v)    == [tag |-> "ok", val |-> v]
Throw(e) == [tag |-> "throw", err |-> e]

SyntaxError  == [name |-> "SyntaxError", msg |-> <<"Unexpected token">>]
NetworkError == [name |-> "TypeError", msg |-> <<"Failed to fetch">>]
BodyUsedError == [name |-> "TypeError", msg |-> <<"body stream already read">>]
NotAnObjectError ==
    [name |-> "TypeError", msg |-> <<"Cannot read properties of undefined">>]

JSONparse(text) ==
    IF text.k = "json" THEN Ok(text.val) ELSE Throw(SyntaxError)

JSONstringify(v) == JsonText(v)

\* sessionStorage.getItem of a key that is not set
NoItem == [k |-> "none"]

\* ------------------------------------------------------------ row store
UserRows ==
    { [id |-> "u1", name |-> "n1", email |-> <<"a">>, password |-> <<"p">>,
       role |-> "Admin"],
      [id |-> "u2", name |-> "n2", email |-> <<"A">>, password |-> <<"q">>,
       role |-> "Manager"],
      [id |-> "u3", name |-> "n3", email |-> <<"b">>, password |-> <<"p">>] }

LeadRows == { [id |-> "l1", name |-> "Jane Doe", assignedToId |-> "u1"] }

\* the collections of at most n rows of S, no row twice
SeqsUpTo(S, n) ==
    { q \in UNION { [1..k -> S] : k \in 0..n } :
        \A i, j \in 1..Len(q) : i # j => q[i] # q[j] }

\* identifiers a caller may name: one the rows may hold, one they never do
UserIds == {"u1", "u9"}

\* --------------------------------------------------------- HTTP responses
NetFail == [net |-> FALSE, status |-> 0, body |-> EmptyText]
Http(status, body) == [net |-> TRUE, status |-> status, body |-> body]

\* Response.ok
ok(resp) == resp.status \in 200..299

ErrorObject == [error |-> <<"Sheet not found">>]

\* what the store may answer to a collection GET
GetResponses(rows) ==
    { NetFail,
      Http(200, JsonText(Arr(rows))),
      Http(200, EmptyText),
      Http(200, GarbageText),
      Http(200, JsonText(Obj(ErrorObject))),
      Http(200, JsonText(Null)),
      Http(204, EmptyText),
      Http(500, JsonText(Obj(ErrorObject))) }

\* the answers to the GET Users of a login (a subset of GetResponses)
LoginGetResponses(rows) ==
    { NetFail, Http(200, JsonText(Arr(rows))), Http(204, EmptyText),
      Http(500, JsonText(Obj(ErrorObject))) }

\* ------------------------------------------------------------ apiRequest
UsersPath == <<"/", "Users">>
LeadsPath == <<"/", "Leads">>

\* sheetIdentifier.startsWith('/') ? sheetIdentifier.substring(1) : ...
sheetName(sheetIdentifier) ==
    IF sheetIdentifier # <<>> /\ Head(sheetIdentifier) = "/"
    THEN Tail(sheetIdentifier) ELSE sheetIdentifier

HttpError(target, resp) ==
    [name |-> "Error", msg |-> <<"API request to">> \o target \o <<"failed">>,
     status |-> resp.status, raw |-> resp.body]

\* method === 'GET' && (sheetName === 'Users' || sheetName === 'Leads')
expectsArray(r, sheetIdentifier, method) ==
    /\ method = "GET"
    /\ IF r = 6 THEN sheetIdentifier \in {UsersPath, LeadsPath}
       ELSE sheetName(sheetIdentifier) \in {<<"Users">>, <<"Leads">>}

\* apiRequestGuarded without its `if (!response.ok) throw`
apiRequestGuarded_StatusIgnored(r, sheetIdentifier, method, resp) ==
    LET coll == expectsArray(r, sheetIdentifier, method)
        caught(e) == IF coll THEN Ok(Arr(<<>>)) ELSE Throw(e)
    IN  IF ~resp.net THEN caught(NetworkError)
        ELSE IF resp.status = 204 \/ resp.body = EmptyText
             THEN IF coll THEN Ok(Arr(<<>>)) ELSE Ok(Undefined)
        ELSE LET parsed == JSONparse(resp.body)
             IN  IF parsed.tag = "throw" THEN caught(parsed.err)
                 ELSE IF coll /\ ~isArray(parsed.val) THEN Ok(Arr(<<>>))
                 ELSE parsed

\* revisions 1-4 and 6: the whole round trip sits in one try/catch
apiRequestGuarded(r, sheetIdentifier, method, resp) ==
    LET coll == expectsArray(r, sheetIdentifier, method)
        target == IF r = 6 THEN sheetIdentifier ELSE sheetName(sheetIdentifier)
        caught(e) == IF coll THEN Ok(Arr(<<>>)) ELSE Throw(e)
    IN  IF ~resp.net THEN caught(NetworkError)
        ELSE IF ~ok(resp) THEN caught(HttpError(target, resp))
        ELSE IF resp.status = 204 \/ resp.body = EmptyText
             THEN IF coll THEN Ok(Arr(<<>>)) ELSE Ok(Undefined)
        ELSE LET parsed == JSONparse(resp.body)
             IN  IF parsed.tag = "throw" THEN caught(parsed.err)
                 ELSE IF coll /\ ~isArray(parsed.val) THEN Ok(Arr(<<>>))
                 ELSE parsed

\* revision 5: no catch around fetch; response.json() consumes the body, so
\* the response.text() of its catch block rejects and that rejection leaves
apiRequestBare(sheetIdentifier, method, resp) ==
    IF ~resp.net THEN Throw(NetworkError)
    ELSE IF ~ok(resp) THEN Throw(HttpError(sheetIdentifier, resp))
    ELSE IF resp.status = 204 THEN Ok(Undefined)
    ELSE LET parsed == JSONparse(resp.body)
         IN  IF parsed.tag = "throw" THEN Throw(BodyUsedError) ELSE parsed

apiRequest(r, sheetIdentifier, method, resp) ==
    IF r = 5 THEN apiRequestBare(sheetIdentifier, method, resp)
    ELSE apiRequestGuarded(r, sheetIdentifier, method, resp)

\* the path each revision's services pass: 'Users' in revision 3, '/Users'
\* elsewhere
usersSheet(r) == IF r = 3 THEN <<"Users">> ELSE UsersPath
leadsSheet(r) == IF r = 3 THEN <<"Leads">> ELSE LeadsPath

Error(msg) == [name |-> "Error", msg |-> msg]

\* a gateway that asks once more when the first exchange failed
apiRequestExchange_RetryOnce(r, sheetIdentifier, method, answers) ==
    IF answers[1].net /\ ok(answers[1])
    THEN [res |-> apiRequest(r, sheetIdentifier, method, answers[1]),
          fetched |-> 1]
    ELSE [res |-> apiRequest(r, sheetIdentifier, method, answers[2]),
          fetched |-> 2]

\* one call of apiRequest against a network that would answer its first
\* fetch with answers[1], a second with answers[2]: the function reaches
\* `await fetch(url, options)` once and has no loop around it
apiRequestExchange(r, sheetIdentifier, method, answers) ==
    [res |-> apiRequest(r, sheetIdentifier, method, answers[1]),
     fetched |-> 1]

\* ----------------------------------------------------------- userService
\* a map that hands the rows on as they came
stripPasswords_Kept(items) == items

stripPasswords(items) == [i \in 1..Len(items) |-> omit(items[i], "password")]

\* usersFromSheet.map(...) on something that is not an array
mapOf(v) ==
    IF isArray(v) THEN Ok(Arr(stripPasswords(v.items)))
    ELSE Throw(NotAnObjectError)

userService_getUsers(r, resp) ==
    LET gw == apiRequest(r, usersSheet(r), "GET", resp)
    IN  IF gw.tag = "throw" THEN gw
        ELSE IF r \in {1, 2, 4, 6} /\ ~isArray(gw.val) THEN Ok(Arr(<<>>))
        ELSE mapOf(gw.val)

leadService_getLeads(r, resp) ==
    LET gw == apiRequest(r, leadsSheet(r), "GET", resp)
    IN  IF gw.tag = "throw" THEN gw
        ELSE IF r \in {1, 2, 4, 6} /\ ~isArray(gw.val) THEN Ok(Arr(<<>>))
        ELSE gw


MsgDeleteFailed ==
    <<"Failed to delete user due to an unknown error from API.">>

\* response.message || response.error || '...unknown error from API.'
envelopeError(o, fallback) ==
    IF has(o, "message") /\ o.message # <<>> THEN Error(o.message)
    ELSE IF has(o, "error") /\ o.error # <<>> THEN Error(o.error)
    ELSE Error(fallback)

userService_deleteUser(r, userId, resp) ==
    LET gw == apiRequest(r, usersSheet(r), "POST", resp)
    IN  IF gw.tag = "throw" THEN gw
        ELSE IF r # 3 THEN Ok(Undefined)
        ELSE IF gw.val.t \in {"undefined", "null"} THEN Throw(NotAnObjectError)
        ELSE IF gw.val.t = "obj" /\ has(gw.val.obj, "success")
                /\ gw.val.obj.success
             THEN Ok(Undefined)
        ELSE IF gw.val.t = "obj"
             THEN Throw(envelopeError(gw.val.obj, MsgDeleteFailed))
        ELSE Throw(Error(MsgDeleteFailed))

\* the store's side of a delete: the row is gone once the store answers
\* with a success status; its envelope says whether it held the id
holdsId(rows, id) == \E i \in 1..Len(rows) : rows[i].id = id

RECURSIVE withoutId(_, _)
withoutId(rows, id) ==
    IF rows = <<>> THEN <<>>
    ELSE IF Head(rows).id = id THEN withoutId(Tail(rows), id)
    ELSE <<Head(rows)>> \o withoutId(Tail(rows), id)

DeleteResponses(rows, id) ==
    { NetFail,
      Http(500, JsonText(Obj(ErrorObject))),
      Http(204, EmptyText),
      Http(200, EmptyText),
      Http(200, GarbageText),
      Http(200, JsonText(Obj(IF holdsId(rows, id) THEN [success |-> TRUE]
                             ELSE [success |-> FALSE,
                                   message |-> <<"User not found">>]))) }

\* ------------------------------------------------------------ authService
MsgInvalid == <<"Invalid email or password.">>
MsgNoUserData == <<"Login failed", ": Could not retrieve user data correctly.">>
MsgTryAgain == <<"Login attempt failed. Please try again.">>

CredentialInputs ==
    [email : {<<"a">>, <<"A">>, <<" ", "a", " ">>, <<"b">>},
     password : {<<"p">>, <<" ", "p">>, <<"q">>}]

\* revisions 1-4: email.trim(), password ? password.trim() : ''
\* revisions 5, 6: the credentials as typed
processedCredentials(r, credentials) ==
    IF r \in {5, 6} THEN credentials
    ELSE [email |-> trim(credentials.email),
          password |-> IF credentials.password # <<>>
                       THEN trim(credentials.password) ELSE <<>>]

\* Array.prototype.find, given the indexes of the elements that satisfy the
\* predicate: the first of them, 0 if there is none
firstIndex(matching) ==
    IF matching = {} THEN 0
    ELSE CHOOSE i \in matching : \A j \in matching : i <= j

emailMatches(u, email) ==
    truthyChars(u, "email") /\ toLowerCase(u.email) = toLowerCase(email)

passwordMatches(u, password) == has(u, "password") /\ u.password = password

\* the remote login endpoint (?sheet=Users&login=true&email=..&password=..):
\* {success, user, message?}.  A style fixes how a deployment words its
\* refusals and whether the row it returns still has the password column.
ServerStyles ==
    { [msg |-> "none", raw |-> TRUE], [msg |-> "generic", raw |-> FALSE],
      [msg |-> "cause", raw |-> TRUE] }

ServerLogin(rows, query, style) ==
    LET i == firstIndex({ k \in 1..Len(rows) :
                              emailMatches(rows[k], query.email) })
    IN  IF i # 0 /\ passwordMatches(rows[i], query.password)
        THEN [success |-> TRUE,
              user |-> IF style.raw THEN rows[i] ELSE omit(rows[i], "password")]
        ELSE IF style.msg = "none" THEN [success |-> FALSE]
        ELSE IF style.msg = "generic"
             THEN [success |-> FALSE, message |-> MsgInvalid]
        ELSE IF i = 0
             THEN [success |-> FALSE,
                   message |-> <<"Login failed", ": user not found">>]
        ELSE [success |-> FALSE,
              message |-> <<"Login failed", ": wrong password">>]

\* what the backend does during one login: the answer to GET Users
\* (revisions 1, 2, 5, 6) or the way the login endpoint behaves (3, 4)
LoginEnvs(r, rows) ==
    IF r \in ServerLoginRevs
    THEN { [transport |-> "answer", style |-> s] : s \in ServerStyles }
         \cup { [transport |-> t] : t \in {"netfail", "500", "garbage"} }
    ELSE { [resp |-> x] : x \in LoginGetResponses(rows) }

LoginResponse(r, rows, query, env) ==
    IF r \notin ServerLoginRevs THEN env.resp
    ELSE IF env.transport = "answer"
         THEN Http(200, JsonText(Obj(ServerLogin(rows, query, env.style))))
    ELSE IF env.transport = "netfail" THEN NetFail
    ELSE IF env.transport = "500" THEN Http(500, EmptyText)
    ELSE Http(200, GarbageText)

\* a login result: what the call returns or throws, and the session store
\* it leaves
Granted(store, identity) ==
    [res |-> Ok(Obj(identity)), store |-> JSONstringify(Obj(identity))]
Refused(store, e) == [res |-> Throw(e), store |-> store]

\* revisions 1, 5, 6: one find over email and password together
loginFindBoth(r, store, rows, c) ==
    LET i == firstIndex({ k \in 1..Len(rows) :
                 /\ IF r = 1 THEN emailMatches(rows[k], c.email)
                    ELSE has(rows[k], "email") /\ rows[k].email = c.email
                 /\ passwordMatches(rows[k], c.password) })
    IN  IF i # 0 THEN Granted(store, omit(rows[i], "password"))
        ELSE Refused(store, Error(MsgInvalid))

\* revision 2: find by email, then compare the password
loginFindByEmail(store, rows, c) ==
    LET i == firstIndex({ k \in 1..Len(rows) : emailMatches(rows[k], c.email) })
    IN  IF i # 0 /\ passwordMatches(rows[i], c.password)
        THEN Granted(store, omit(rows[i], "password"))
        ELSE Refused(store, Error(MsgInvalid))

loginLocal(r, store, c, resp) ==
    LET gw == apiRequest(r, UsersPath, "GET", resp)
    IN  IF gw.tag = "throw" THEN Refused(store, gw.err)
        ELSE IF ~isArray(gw.val)
             THEN IF r = 5 THEN Refused(store, NotAnObjectError)
                  ELSE Refused(store, Error(MsgNoUserData))
        ELSE IF r = 2 THEN loginFindByEmail(store, gw.val.items, c)
        ELSE loginFindBoth(r, store, gw.val.items, c)

\* revision 3's catch: user-facing errors are rethrown, others replaced
loginCatch3(e) ==
    IF \/ e.msg = MsgInvalid
       \/ includes(e.msg, <<"API responded with status">>)
       \/ includes(e.msg, <<"Login failed">>)
    THEN e ELSE Error(MsgTryAgain)

envelopeAccepted(data) ==
    /\ data.t = "obj"
    /\ has(data.obj, "success") /\ data.obj.success
    /\ has(data.obj, "user")

loginServer3(store, resp) ==
    IF ~resp.net THEN Refused(store, loginCatch3(NetworkError))
    ELSE IF ~ok(resp) THEN Refused(store, loginCatch3(Error(MsgInvalid)))
    ELSE LET parsed == JSONparse(resp.body)
         IN  IF parsed.tag = "throw" THEN Refused(store, loginCatch3(parsed.err))
             ELSE IF parsed.val.t # "obj"
                  THEN Refused(store, loginCatch3(NotAnObjectError))
             ELSE IF envelopeAccepted(parsed.val)
                  THEN Granted(store, pick(parsed.val.obj.user,
                                           {"id", "name", "email", "role"}))
             ELSE IF has(parsed.val.obj, "message")
                  THEN Refused(store, loginCatch3(Error(parsed.val.obj.message)))
             ELSE Refused(store, loginCatch3(Error(MsgInvalid)))

\* revision 4: data.user is stored and returned as received; every failure
\* is replaced by the one message
loginServer4(store, resp) ==
    IF ~resp.net \/ ~ok(resp) THEN Refused(store, Error(MsgInvalid))
    ELSE LET parsed == JSONparse(resp.body)
         IN  IF parsed.tag = "ok" /\ envelopeAccepted(parsed.val)
             THEN Granted(store, parsed.val.obj.user)
             ELSE Refused(store, Error(MsgInvalid))

authService_login(r, store, rows, credentials, env) ==
    LET c == processedCredentials(r, credentials)
        resp == LoginResponse(r, rows, c, env)
    IN  IF r = 3 THEN loginServer3(store, resp)
        ELSE IF r = 4 THEN loginServer4(store, resp)
        ELSE loginLocal(r, store, c, resp)

\* a logout that forgets to remove the item
authService_logout_ItemKept(store) == [res |-> Ok(Undefined), store |-> store]

\* sessionStorage.removeItem(SESSION_STORAGE_KEY)
authService_logout(store) == [res |-> Ok(Undefined), store |-> NoItem]

\* user && user.id && user.email && user.role
validStoredUser(v) ==
    /\ v.t = "obj"
    /\ truthyAtom(v.obj, "id") /\ truthyChars(v.obj, "email")
    /\ truthyAtom(v.obj, "role")

authService_getCurrentUser(r, store) ==
    IF store = NoItem THEN [res |-> Ok(Null), store |-> store]
    ELSE LET parsed == JSONparse(store)
         IN  IF r = 3
             THEN IF parsed.tag = "ok" /\ validStoredUser(parsed.val)
                  THEN [res |-> parsed, store |-> store]
                  ELSE [res |-> Ok(Null), store |-> NoItem]
             ELSE [res |-> parsed, store |-> store]

\* ------------------------------------------------------------------ state
NoCall == [op |-> "none"]
\* no page is mounted
NoPage == [mounted |-> "none"]
NoCalls == [fetching |-> 0]

Init ==
    /\ rev \in Revisions
    /\ users \in SeqsUpTo(UserRows, MaxUsers)
    /\ leads \in SeqsUpTo(LeadRows, MaxLeads)
    /\ session = NoItem
    /\ last = NoCall
    /\ expected = Null
    /\ user = Null /\ isLoading = TRUE
    /\ now = 0 /\ inflight = {}
    /\ page = NoPage /\ calls = NoCalls

GetUsers ==
    \E resp \in GetResponses(users) :
        /\ last' = [op |-> "getUsers", method |-> "GET", resp |-> resp,
                    gw |-> apiRequest(rev, usersSheet(rev), "GET", resp),
                    res |-> userService_getUsers(rev, resp)]
        /\ UNCHANGED <<rev, users, leads, session, expected, uiVars, svcVars, pageVars>>

GetLeads ==
    \E resp \in GetResponses(leads) :
        /\ last' = [op |-> "getLeads", method |-> "GET", resp |-> resp,
                    gw |-> apiRequest(rev, leadsSheet(rev), "GET", resp),
                    res |-> leadService_getLeads(rev, resp)]
        /\ UNCHANGED <<rev, users, leads, session, expected, uiVars, svcVars, pageVars>>

Login ==
    \E credentials \in CredentialInputs, env \in LoginEnvs(rev, users) :
        LET out == authService_login(rev, session, users, credentials, env)
        IN  /\ session' = out.store
            /\ expected' = IF out.res.tag = "ok" THEN out.res.val ELSE expected
            /\ last' = [op |-> "login", credentials |-> credentials,
                        env |-> env, res |-> out.res]
            /\ UNCHANGED <<rev, users, leads, uiVars, svcVars, pageVars>>

Logout ==
    LET out == authService_logout(session)
    IN  /\ session' = out.store
        /\ expected' = Null
        /\ last' = [op |-> "logout", res |-> out.res]
        /\ UNCHANGED <<rev, users, leads, uiVars, svcVars, pageVars>>

GetCurrentUser ==
    LET out == authService_getCurrentUser(rev, session)
    IN  /\ session' = out.store
        /\ last' = [op |-> "getCurrentUser", res |-> out.res]
        /\ UNCHANGED <<rev, users, leads, expected, uiVars, svcVars, pageVars>>

DeleteUser ==
    \E userId \in UserIds : \E resp \in DeleteResponses(users, userId) :
        /\ users' = IF resp.net /\ ok(resp) THEN withoutId(users, userId)
                    ELSE users
        /\ last' = [op |-> "deleteUser", method |-> "POST", resp |-> resp,
                    userId |-> userId,
                    gw |-> apiRequest(rev, usersSheet(rev), "POST", resp),
                    res |-> userService_deleteUser(rev, userId, resp)]
        /\ UNCHANGED <<rev, leads, session, expected, uiVars, svcVars, pageVars>>

Next ==
    \/ GetUsers
    \/ GetLeads
    \/ Login
    \/ Logout
    \/ GetCurrentUser
    \/ DeleteUser

Spec == Init /\ [][Next]_vars

\* ------------------------------------------------------------ AuthProvider
\* (src/unnamed/part_002)
Roles == {"Admin", "Manager", "Sales Executive"}

\* the argument of hasRole: one role, or an array of roles
OneRole(r) == [t |-> "role", role |-> r]

RoleArgs ==
    { OneRole(r) : r \in Roles }
    \cup { Arr(<<>>), Arr(<<"Admin", "Manager">>),
           Arr(<<"Admin", "Manager", "Sales Executive">>) }

\* a hasRole that only asks whether somebody is signed in
hasRole_AnyIdentity(u, roles) == u.t \notin {"null", "undefined"}

\* if (!user) return false;
\* Array.isArray(roles) ? roles.includes(user.role) : user.role === roles
hasRole(u, roles) ==
    IF u.t \in {"null", "undefined"} THEN FALSE
    ELSE IF isArray(roles)
         THEN \E i \in 1..Len(roles.items) :
                  has(u.obj, "role") /\ roles.items[i] = u.obj.role
         ELSE has(u.obj, "role") /\ u.obj.role = roles.role

UiInit ==
    /\ rev \in Revisions
    /\ users \in SeqsUpTo(UserRows, MaxUsers)
    /\ leads = <<>>
    /\ session = NoItem
    /\ last = NoCall
    /\ expected = Null
    /\ user = Null /\ isLoading = TRUE
    /\ now = 0 /\ inflight = {}
    /\ page = NoPage /\ calls = NoCalls

\* the provider is mounted again (page reload): React state starts over,
\* sessionStorage stays
Remount ==
    /\ ~isLoading
    /\ user' = Null /\ isLoading' = TRUE
    /\ last' = [op |-> "mount"]
    /\ UNCHANGED <<rev, users, leads, session, expected, svcVars, pageVars>>

\* the mount effect, part_002:20-38
InitializeAuth ==
    /\ isLoading
    /\ LET out == authService_getCurrentUser(rev, session)
       IN  /\ session' = out.store
           /\ user' = IF out.res.tag = "ok" THEN out.res.val ELSE Null
           /\ isLoading' = FALSE
           /\ last' = [op |-> "initializeAuth", res |-> out.res]
    /\ UNCHANGED <<rev, users, leads, expected, svcVars, pageVars>>

\* part_002:40-54
ProviderLogin ==
    /\ ~isLoading
    /\ \E credentials \in CredentialInputs, env \in LoginEnvs(rev, users) :
        LET out == authService_login(rev, session, users, credentials, env)
        IN  /\ session' = out.store
            /\ user' = IF out.res.tag = "ok" THEN out.res.val ELSE Null
            /\ isLoading' = FALSE
            /\ last' = [op |-> "providerLogin", res |-> out.res]
    /\ UNCHANGED <<rev, users, leads, expected, svcVars, pageVars>>

\* part_002:56-69
ProviderLogout ==
    /\ ~isLoading
    /\ LET out == authService_logout(session)
       IN  /\ session' = out.store
           /\ user' = Null
           /\ isLoading' = FALSE
           /\ last' = [op |-> "providerLogout", res |-> out.res]
    /\ UNCHANGED <<rev, users, leads, expected, svcVars, pageVars>>

\* a component asks hasRole while rendering
HasRole ==
    \E roles \in RoleArgs :
        /\ last' = [op |-> "hasRole", roles |-> roles,
                    answer |-> hasRole(user, roles)]
        /\ UNCHANGED <<rev, users, leads, session, expected, uiVars, svcVars, pageVars>>

\* ProtectedRoute, src/unnamed/part_005
\* a route that does not wait for the startup check
ProtectedRoute_NoLoadingCheck(loading, u, allowedRoles) ==
    IF u.t \in {"null", "undefined"} THEN "Navigate /login"
    ELSE IF isArray(allowedRoles) /\ ~hasRole(u, allowedRoles)
         THEN "Navigate /"
    ELSE "children"

\* if (isLoading) return <Spinner/>; if (!user) return <Navigate to="/login"/>;
\* if (allowedRoles && !hasRole(allowedRoles)) return <Navigate to="/"/>;
\* return children
ProtectedRoute(loading, u, allowedRoles) ==
    IF loading THEN "Spinner"
    ELSE IF u.t \in {"null", "undefined"} THEN "Navigate /login"
    ELSE IF isArray(allowedRoles) /\ ~hasRole(u, allowedRoles)
         THEN "Navigate /"
    ELSE "children"

\* a protected route renders with the provider's current value; its
\* allowedRoles: none, or an array such as those index.tsx passes
RenderProtectedRoute ==
    \E allowedRoles \in { Undefined, Arr(<<>>), Arr(<<"Admin">>),
                          Arr(<<"Admin", "Manager">>) } :
        /\ last' = [op |-> "ProtectedRoute", allowedRoles |-> allowedRoles,
                    isLoading |-> isLoading, user |-> user,
                    rendered |-> ProtectedRoute(isLoading, user, allowedRoles)]
        /\ UNCHANGED <<rev, users, leads, session, expected, uiVars, svcVars,
                       pageVars>>

UiNext ==
    \/ RenderProtectedRoute
    \/ Remount
    \/ InitializeAuth
    \/ ProviderLogin
    \/ ProviderLogout
    \/ HasRole

UiSpec == UiInit /\ [][UiNext]_vars

\* ------------------------------------------- userService: the other calls
\* { ...o, f: v }
assign(o, f, v) == [k \in DOMAIN o \cup {f} |-> IF k = f THEN v ELSE o[k]]

\* { ...a, ...b }
spread(a, b) ==
    [k \in DOMAIN a \cup DOMAIN b |-> IF k \in DOMAIN b THEN b[k] ELSE a[k]]

\* const { password, ...rest } = v, for what a request may have returned
withoutPassword(v) ==
    IF v.t = "obj" THEN Ok(Obj(omit(v.obj, "password")))
    ELSE Throw(NotAnObjectError)

userService_getUserById(r, userId, resp) ==
    LET gw == apiRequest(r, usersSheet(r), "GET", resp)
    IN  IF gw.tag = "throw" THEN gw
        ELSE IF ~isArray(gw.val)
             THEN IF r \in {1, 2, 4, 6} THEN Ok(Undefined)
                  ELSE Throw(NotAnObjectError)
        ELSE LET i == firstIndex({ k \in 1..Len(gw.val.items) :
                                       gw.val.items[k].id = userId })
             IN  IF i = 0 THEN Ok(Undefined)
                 ELSE Ok(Obj(omit(gw.val.items[i], "password")))

MsgAddUserFailed == <<"Failed to add user due to an unknown error from API.">>
MsgUpdateUserFailed ==
    <<"Failed to update user due to an unknown error from API.">>

\* an addUser that sends the form's fields unrenamed
newUserPayload_NotRenamed(userData) == userData

\* const { passwordInput, ...restUserData } = userData;
\* { ...restUserData, password: passwordInput }
\* (a password that is undefined is not serialised)
newUserPayload(userData) ==
    IF has(userData, "passwordInput")
    THEN assign(omit(userData, "passwordInput"), "password",
                userData.passwordInput)
    ELSE userData

\* the body of the POST: the row itself, or { action: 'add', data } (rev. 3)
addUserBody(r, userData) ==
    IF r = 3 THEN [action |-> "add", data |-> newUserPayload(userData)]
    ELSE newUserPayload(userData)

\* revision 3's reading of a { success, user | id, message } envelope
addUserEnvelope(userData, v) ==
    IF v.t \in {"undefined", "null"} THEN Throw(NotAnObjectError)
    ELSE IF v.t # "obj" THEN Throw(Error(MsgAddUserFailed))
    ELSE IF has(v.obj, "success") /\ v.obj.success /\ has(v.obj, "user")
         THEN Ok(Obj(omit(v.obj.user, "password")))
    ELSE IF truthyAtom(v.obj, "id") /\ ~has(v.obj, "user")
         THEN Ok(Obj(omit(assign(newUserPayload(userData), "id", v.obj.id),
                          "password")))
    ELSE Throw(envelopeError(v.obj, MsgAddUserFailed))

userService_addUser(r, userData, resp) ==
    LET gw == apiRequest(r, usersSheet(r), "POST", resp)
    IN  IF gw.tag = "throw" THEN gw
        ELSE IF r = 3 THEN addUserEnvelope(userData, gw.val)
        ELSE withoutPassword(gw.val)

\* the data of an update request:
\*  revisions 1, 2, 4: every own key but passwordInput, plus password
\*  revision 3: the rest of { passwordInput, ...rest }, plus password
\*  revisions 5, 6: { password, ...rest }, or userData itself when no
\*  passwordInput was given
dataToUpdate(r, userData) ==
    IF truthyChars(userData, "passwordInput")
    THEN assign(omit(userData, "passwordInput"), "password",
                userData.passwordInput)
    ELSE IF r \in {5, 6} THEN userData
    ELSE omit(userData, "passwordInput")

updateUserBody(r, userId, userData) ==
    [action |-> "update", id |-> userId, data |-> dataToUpdate(r, userData)]

updateUserEnvelope(v) ==
    IF v.t \in {"undefined", "null"} THEN Throw(NotAnObjectError)
    ELSE IF v.t # "obj" THEN Throw(Error(MsgUpdateUserFailed))
    ELSE IF has(v.obj, "success") /\ v.obj.success /\ has(v.obj, "user")
         THEN Ok(Obj(omit(v.obj.user, "password")))
    ELSE Throw(envelopeError(v.obj, MsgUpdateUserFailed))

userService_updateUser(r, userId, userData, resp) ==
    LET gw == apiRequest(r, usersSheet(r), "POST", resp)
    IN  IF gw.tag = "throw" THEN gw
        ELSE IF r = 3 THEN updateUserEnvelope(gw.val)
        ELSE withoutPassword(gw.val)

\* ------------------------------------------------- UsersPage.handleSaveUser
\* (src/unnamed/part_004:47-68) what UserModal hands over: id, name, email,
\* role and, when typed, passwordInput
NewUserInputs ==
    { [name |-> "n4", email |-> <<"c">>, role |-> "Sales Executive",
       passwordInput |-> <<"s">>] }

\* the forms a caller of handleSaveUser(userData, true) may hand over: the
\* complete one, and the ones with a field left out or left empty
NewUserForms ==
    NewUserInputs
    \cup { omit(f, k) : f \in NewUserInputs,
                        k \in {"name", "email", "role", "passwordInput"} }
    \cup { assign(f, "name", "") : f \in NewUserInputs }
    \cup { assign(f, "email", <<>>) : f \in NewUserInputs }
    \cup { assign(f, "passwordInput", <<>>) : f \in NewUserInputs }

MsgMissingFields == <<"Missing required fields for new user.">>

\* a handler that passes every form on to the service
handleSaveUser_newUser_Unchecked(userData) ==
    Ok(pick(userData, {"name", "email", "role", "passwordInput"}))

\* const { name, email, role, passwordInput } = userData;
\* if (!name || !email || !role || !passwordInput) throw new Error(...);
\* the argument of userService.addUser otherwise
handleSaveUser_newUser(userData) ==
    IF /\ truthyAtom(userData, "name") /\ truthyChars(userData, "email")
       /\ truthyAtom(userData, "role")
       /\ truthyChars(userData, "passwordInput")
    THEN Ok(pick(userData, {"name", "email", "role", "passwordInput"}))
    ELSE Throw(Error(MsgMissingFields))

EditedUserData ==
    LET form == [id |-> "u1", name |-> "nx", email |-> <<"z">>,
                 role |-> "Manager"]
    IN  { form, assign(form, "passwordInput", <<>>),
          assign(form, "passwordInput", <<"s">>) }

\* a handler that passes the form's data on as it got it
handleSaveUser_updatePayload_AllFields(userData) == userData

\* const { passwordInput, ...updateData } = userData;
\* payload = { name: updateData.name, role: updateData.role };
\* if (passwordInput) payload.passwordInput = passwordInput;
handleSaveUser_updatePayload(userData) ==
    LET payload == pick(userData, {"name", "role"})
    IN  IF truthyChars(userData, "passwordInput")
        THEN assign(payload, "passwordInput", userData.passwordInput)
        ELSE payload

\* ----------------------------------------- the store's side of a mutation
\* what the store may answer once it has written `row`: the row, a success
\* envelope holding the row under `key`, a success envelope with the bare
\* identifier, or no content
Written(key, row) ==
    { Http(200, JsonText(Obj(row))),
      Http(200, JsonText(Obj(assign([success |-> TRUE], key, row)))),
      Http(200, JsonText(Obj([success |-> TRUE, id |-> row.id]))),
      Http(204, EmptyText) }

\* it did not write: unreachable, a server error, or a refusal
NotWritten(refusals) ==
    { NetFail, Http(500, JsonText(Obj(ErrorObject))) }
    \cup { Http(200, JsonText(Obj([success |-> FALSE, message |-> m]))) :
             m \in refusals }

NewUserId == "u4"

indexOfId(rows, id) == firstIndex({ k \in 1..Len(rows) : rows[k].id = id })

\* the row with the request's data written over it
rowsUpdated(rows, id, data) ==
    [k \in 1..Len(rows) |->
        IF rows[k].id = id THEN spread(rows[k], data) ELSE rows[k]]

\* the row data of a request body: body.data when it names an action
requestData(body) == IF has(body, "action") THEN body.data ELSE body

\* ------------------------------------------------ user management calls
UserInit ==
    /\ rev \in Revisions
    /\ users \in SeqsUpTo(UserRows, MaxUsers)
    /\ leads = <<>>
    /\ session = NoItem
    /\ last = NoCall
    /\ expected = Null
    /\ user = Null /\ isLoading = TRUE
    /\ now = 0 /\ inflight = {}
    /\ page = NoPage /\ calls = NoCalls

GetUserById ==
    \E userId \in UserIds, resp \in GetResponses(users) :
        /\ last' = [op |-> "getUserById", method |-> "GET", resp |-> resp,
                    userId |-> userId,
                    res |-> userService_getUserById(rev, userId, resp)]
        /\ UNCHANGED <<rev, users, leads, session, expected, uiVars, svcVars, pageVars>>

\* handleSaveUser(userData, true): a form that fails the check is thrown
\* back before userService.addUser is called
AddUser ==
    /\ ~holdsId(users, NewUserId)
    /\ \E form \in NewUserForms :
        LET checked == handleSaveUser_newUser(form)
        IN  IF checked.tag = "throw"
            THEN /\ users' = users
                 /\ last' = [op |-> "saveUser", form |-> form,
                             res |-> checked]
            ELSE LET userData == checked.val
                     body == addUserBody(rev, userData)
                     row == assign(requestData(body), "id", NewUserId)
                 IN  \E resp \in Written("user", row) \cup NotWritten({}) :
                       /\ users' = IF resp \in Written("user", row)
                                   THEN Append(users, row) ELSE users
                       /\ last' = [op |-> "addUser", method |-> "POST",
                                   form |-> form, input |-> userData,
                                   body |-> body, resp |-> resp,
                                   res |-> userService_addUser(rev, userData,
                                                               resp)]
    /\ UNCHANGED <<rev, leads, session, expected, uiVars, svcVars, pageVars>>

\* handleSaveUser(userData, false) while editing the user userId
UpdateUser ==
    \E userId \in UserIds, userData \in EditedUserData :
        LET input == handleSaveUser_updatePayload(userData)
            body == updateUserBody(rev, userId, input)
            held == holdsId(users, userId)
            rows == rowsUpdated(users, userId, body.data)
            written == IF held
                       THEN Written("user", rows[indexOfId(rows, userId)])
                       ELSE {}
            refused == IF held THEN NotWritten({})
                       ELSE NotWritten({<<"User not found">>})
        IN  \E resp \in written \cup refused :
              /\ users' = IF resp \in written THEN rows ELSE users
              /\ last' = [op |-> "updateUser", method |-> "POST",
                          form |-> userData, input |-> input,
                          body |-> body, resp |-> resp,
                          res |-> userService_updateUser(rev, userId, input,
                                                         resp)]
              /\ UNCHANGED <<rev, leads, session, expected, uiVars, svcVars, pageVars>>

\* a call of the Gateway on the Users sheet, against a network whose second
\* answer would be the rows
ApiRequest ==
    \E method \in {"GET", "POST"}, first \in GetResponses(users) :
        LET answers == <<first, Http(200, JsonText(Arr(users)))>>
        IN  /\ last' = [op |-> "apiRequest", method |-> method,
                        answers |-> answers,
                        out |-> apiRequestExchange(rev, usersSheet(rev),
                                                   method, answers)]
            /\ UNCHANGED <<rev, users, leads, session, expected, uiVars,
                           svcVars, pageVars>>

UserNext ==
    \/ ApiRequest
    \/ GetUsers
    \/ GetUserById
    \/ AddUser
    \/ UpdateUser
    \/ DeleteUser

UserSpec == UserInit /\ [][UserNext]_vars

\* ------------------------------------------- leadService: the other calls
\* new Date().toISOString() is modelled by the instant it reads, counted in
\* milliseconds: the ISO text of an instant is fixed by it and orders as it
MaxClock == 1
MaxInflight == 2

MsgAddLeadFailed == <<"Failed to add lead due to an unknown error from API.">>
MsgUpdateLeadFailed ==
    <<"Failed to update lead due to an unknown error from API.">>
MsgDeleteLeadFailed ==
    <<"Failed to delete lead due to an unknown error from API.">>

NotAFunctionError ==
    [name |-> "TypeError", msg |-> <<"leadService.deleteLead is not a function">>]

\* revisions 1, 2, 4, 5, 6: { ...leadData, createdAt: <first reading>,
\* updatedAt: <second reading> }; revision 3: { ...leadData }
addLeadPayload(r, leadData, first, second) ==
    IF r = 3 THEN leadData
    ELSE assign(assign(leadData, "createdAt", first), "updatedAt", second)

addLeadBody(r, leadData, first, second) ==
    IF r = 3
    THEN [action |-> "add", data |-> addLeadPayload(r, leadData, first, second)]
    ELSE addLeadPayload(r, leadData, first, second)

\* revision 3's reading of { success, lead | id, message }; its fallback
\* reads the clock twice more
addLeadEnvelope(leadData, v, first, second) ==
    IF v.t \in {"undefined", "null"} THEN Throw(NotAnObjectError)
    ELSE IF v.t # "obj" THEN Throw(Error(MsgAddLeadFailed))
    ELSE IF has(v.obj, "success") /\ v.obj.success /\ has(v.obj, "lead")
         THEN Ok(Obj(v.obj.lead))
    ELSE IF truthyAtom(v.obj, "id") /\ ~has(v.obj, "lead")
         THEN Ok(Obj(assign(assign(assign(leadData, "id", v.obj.id),
                                   "createdAt", first), "updatedAt", second)))
    ELSE Throw(envelopeError(v.obj, MsgAddLeadFailed))

leadService_addLead(r, leadData, resp, first, second) ==
    LET gw == apiRequest(r, leadsSheet(r), "POST", resp)
    IN  IF gw.tag = "throw" THEN gw
        ELSE IF r = 3 THEN addLeadEnvelope(leadData, gw.val, first, second)
        ELSE gw

\* revisions 1, 2, 4, 5, 6: { ...leadData, updatedAt: <reading> };
\* revision 3: { ...leadData }
updateLeadData(r, leadData, instant) ==
    IF r = 3 THEN leadData ELSE assign(leadData, "updatedAt", instant)

updateLeadBody(r, leadId, leadData, instant) ==
    [action |-> "update", id |-> leadId,
     data |-> updateLeadData(r, leadData, instant)]

updateLeadEnvelope(v) ==
    IF v.t \in {"undefined", "null"} THEN Throw(NotAnObjectError)
    ELSE IF v.t # "obj" THEN Throw(Error(MsgUpdateLeadFailed))
    ELSE IF has(v.obj, "success") /\ v.obj.success /\ has(v.obj, "lead")
         THEN Ok(Obj(v.obj.lead))
    ELSE Throw(envelopeError(v.obj, MsgUpdateLeadFailed))

leadService_updateLead(r, resp) ==
    LET gw == apiRequest(r, leadsSheet(r), "POST", resp)
    IN  IF gw.tag = "throw" THEN gw
        ELSE IF r = 3 THEN updateLeadEnvelope(gw.val)
        ELSE gw

\* revision 4's leadService has no deleteLead; revision 3 reads the
\* envelope; the others ignore what the store answered
leadService_deleteLead(r, leadId, resp) ==
    LET gw == apiRequest(r, leadsSheet(r), "POST", resp)
    IN  IF r = 4 THEN Throw(NotAFunctionError)
        ELSE IF gw.tag = "throw" THEN gw
        ELSE IF r # 3 THEN Ok(Undefined)
        ELSE IF gw.val.t \in {"undefined", "null"} THEN Throw(NotAnObjectError)
        ELSE IF gw.val.t = "obj" /\ has(gw.val.obj, "success")
                /\ gw.val.obj.success
             THEN Ok(Undefined)
        ELSE IF gw.val.t = "obj"
             THEN Throw(envelopeError(gw.val.obj, MsgDeleteLeadFailed))
        ELSE Throw(Error(MsgDeleteLeadFailed))

\* --------------------------------------------- LeadsPage.handleSaveLead
\* (src/unnamed/part_004:405-418)
NewLeadForms ==
    { [name |-> "New Lead", assignedToId |-> "u1", assignedToName |-> "n1"] }

EditedLeadForms ==
    { [id |-> "l1", name |-> "Jane D.", assignedToName |-> "n1"],
      [id |-> "l1", name |-> "Jane D.", assignedToName |-> "n1",
       updatedAt |-> 0] }

LeadIds == {"l1", "l9"}

\* const { id, createdAt, updatedAt, assignedToName, ...dataToAdd } = form
handleSaveLead_dataToAdd(form) ==
    [k \in DOMAIN form \ {"id", "createdAt", "updatedAt", "assignedToName"}
        |-> form[k]]

\* const { assignedToName, ...dataToUpdate } = form
handleSaveLead_dataToUpdate(form) == omit(form, "assignedToName")

\* ----------------------------------------------- the store's side, leads
NewLeadId == "l2"

\* the store writes the timestamps a request leaves out
stamped(data, fields, instant) ==
    [k \in DOMAIN data \cup fields |->
        IF k \in DOMAIN data THEN data[k] ELSE instant]

\* ------------------------------------------------ lead management calls
LeadInit ==
    /\ rev \in Revisions
    /\ users = <<>>
    /\ leads \in SeqsUpTo(LeadRows, MaxLeads)
    /\ session = NoItem
    /\ last = NoCall
    /\ expected = Null
    /\ user = Null /\ isLoading = TRUE
    /\ now = 0 /\ inflight = {}
    /\ page = NoPage /\ calls = NoCalls

\* a millisecond passes
Tick ==
    /\ now < MaxClock
    /\ now' = now + 1
    /\ UNCHANGED <<rev, users, leads, session, last, expected, uiVars,
                   inflight, pageVars>>

\* handleSaveLead for a new lead; the clock may move between the two
\* readings addLead takes
AddLead ==
    /\ ~holdsId(leads, NewLeadId)
    /\ \E form \in NewLeadForms, d \in {0, 1} :
        /\ now + d <= MaxClock
        /\ LET leadData == handleSaveLead_dataToAdd(form)
               body == addLeadBody(rev, leadData, now, now + d)
               row == assign(stamped(requestData(body),
                                     {"createdAt", "updatedAt"}, now),
                             "id", NewLeadId)
           IN  \E resp \in Written("lead", row) \cup NotWritten({}) :
                 /\ leads' = IF resp \in Written("lead", row)
                             THEN Append(leads, row) ELSE leads
                 /\ now' = now + d
                 /\ last' = [op |-> "addLead", method |-> "POST",
                             input |-> leadData, body |-> body,
                             resp |-> resp,
                             applied |-> resp \in Written("lead", row),
                             onEmpty |-> leads = <<>>,
                             res |-> leadService_addLead(rev, leadData, resp,
                                                         now, now + d)]
    /\ UNCHANGED <<rev, users, session, expected, uiVars, inflight, pageVars>>

\* handleSaveLead for an edited lead, up to the request leaving
UpdateLeadSend ==
    /\ Cardinality(inflight) < MaxInflight
    /\ \E form \in EditedLeadForms :
        LET leadData == handleSaveLead_dataToUpdate(form)
            body == updateLeadBody(rev, form.id, leadData, now)
            req == [input |-> leadData, body |-> body, sent |-> now]
        IN  /\ req \notin inflight
            /\ inflight' = inflight \cup {req}
            /\ last' = [op |-> "updateLeadSend", input |-> leadData,
                        body |-> body, sent |-> now]
    /\ UNCHANGED <<rev, users, leads, session, expected, uiVars, now, pageVars>>

\* a request reaches the store, the store answers, updateLead returns
UpdateLeadArrive ==
    \E req \in inflight :
        LET body == req.body
            held == holdsId(leads, body.id)
            rows == rowsUpdated(leads, body.id,
                                stamped(body.data, {"updatedAt"}, now))
            written == IF held
                       THEN Written("lead", rows[indexOfId(rows, body.id)])
                       ELSE {}
            refused == IF held THEN NotWritten({})
                       ELSE NotWritten({<<"Lead not found">>})
        IN  \E resp \in written \cup refused :
              /\ leads' = IF resp \in written THEN rows ELSE leads
              /\ inflight' = inflight \ {req}
              /\ last' = [op |-> "updateLead", method |-> "POST",
                          input |-> req.input, body |-> body, resp |-> resp,
                          applied |-> resp \in written,
                          sent |-> req.sent, arrived |-> now,
                          before |-> IF held
                                     THEN Obj(leads[indexOfId(leads, body.id)])
                                     ELSE Undefined,
                          res |-> leadService_updateLead(rev, resp)]
              /\ UNCHANGED <<rev, users, session, expected, uiVars, now, pageVars>>

DeleteLead ==
    \E leadId \in LeadIds : \E resp \in DeleteResponses(leads, leadId) :
        /\ leads' = IF rev # 4 /\ resp.net /\ ok(resp)
                    THEN withoutId(leads, leadId) ELSE leads
        /\ last' = [op |-> "deleteLead", method |-> "POST", resp |-> resp,
                    leadId |-> leadId,
                    res |-> leadService_deleteLead(rev, leadId, resp)]
        /\ UNCHANGED <<rev, users, session, expected, uiVars, svcVars, pageVars>>

LeadNext ==
    \/ Tick
    \/ AddLead
    \/ UpdateLeadSend
    \/ UpdateLeadArrive
    \/ DeleteLead

LeadSpec == LeadInit /\ [][LeadNext]_vars

\* ---------------------------------------------------------------- LeadsPage
\* (src/unnamed/part_004:335-629)
\* leads assigned to a listed identity (with a name stored beside it), to
\* nobody, to an identity the sheet never holds, and to the nameless one
AssignedLeadRows ==
    { [id |-> "l1", name |-> "Jane Doe", assignedToId |-> "u1",
       assignedToName |-> "stale"],
      [id |-> "l2", name |-> "John Roe"],
      [id |-> "l3", name |-> "Ann Poe", assignedToId |-> "u9"],
      [id |-> "l4", name |-> "Max Moe", assignedToId |-> "u5"] }

\* the identities the Users sheet may hold while the page is open: a known
\* one, and one whose name cell is empty
LeadsPageUserRows ==
    { u \in UserRows : u.id = "u1" }
    \cup { [id |-> "u5", name |-> "", email |-> <<"q">>, password |-> <<"q">>,
            role |-> "Sales Executive"] }

\* what the store may answer to either of the page's two GETs
LeadsPageResponses(rows) ==
    { NetFail,
      Http(200, JsonText(Arr(rows))),
      Http(200, JsonText(Obj(ErrorObject))),
      Http(500, JsonText(Obj(ErrorObject))) }

\* fetched || []
orEmpty(v) == IF v.t \in {"undefined", "null"} THEN Arr(<<>>) ELSE v

\* a fetchData that keeps what each fetch gave (Promise.allSettled)
fetchData_Settled(r, leadsResp, usersResp) ==
    LET fetchedLeads == leadService_getLeads(r, leadsResp)
        fetchedUsers == userService_getUsers(r, usersResp)
    IN  [leads |-> IF fetchedLeads.tag = "throw" THEN Arr(<<>>)
                   ELSE orEmpty(fetchedLeads.val),
         users |-> IF fetchedUsers.tag = "throw" THEN Arr(<<>>)
                   ELSE orEmpty(fetchedUsers.val)]

\* const [fetchedLeads, fetchedUsers] = await Promise.all([getLeads(),
\* getUsers()]); setLeads(fetchedLeads || []); setUsers(fetchedUsers || []);
\* catch: setLeads([]); setUsers([])
fetchData(r, leadsResp, usersResp) ==
    LET fetchedLeads == leadService_getLeads(r, leadsResp)
        fetchedUsers == userService_getUsers(r, usersResp)
    IN  IF fetchedLeads.tag = "throw" \/ fetchedUsers.tag = "throw"
        THEN [leads |-> Arr(<<>>), users |-> Arr(<<>>)]
        ELSE [leads |-> orEmpty(fetchedLeads.val),
              users |-> orEmpty(fetchedUsers.val)]

\* users.find(u => u.id === lead.assignedToId): its index, 0 for undefined
findAssignee(us, lead) ==
    firstIndex({ k \in 1..Len(us) :
        IF has(lead, "assignedToId")
        THEN has(us[k], "id") /\ us[k].id = lead.assignedToId
        ELSE ~has(us[k], "id") })

\* a derivation that keeps the name stored with the lead
processedLeads_Stored(ls, us) ==
    IF ~isArray(ls) THEN Throw(NotAFunctionError)
    ELSE Ok(Arr([i \in 1..Len(ls.items) |->
            IF has(ls.items[i], "assignedToName") THEN ls.items[i]
            ELSE assign(ls.items[i], "assignedToName", "Unassigned")]))

\* leads.map(lead => ({ ...lead,
\*   assignedToName: users.find(...)?.name || 'Unassigned' }))
processedLeads(ls, us) ==
    IF ~isArray(ls) THEN Throw(NotAFunctionError)
    ELSE Ok(Arr([i \in 1..Len(ls.items) |->
            LET k == findAssignee(us.items, ls.items[i])
            IN  assign(ls.items[i], "assignedToName",
                       IF k # 0 /\ truthyAtom(us.items[k], "name")
                       THEN us.items[k].name ELSE "Unassigned")]))

LeadsPageInit ==
    /\ rev \in Revisions
    /\ users \in SeqsUpTo(LeadsPageUserRows, MaxUsers)
    /\ leads \in SeqsUpTo(AssignedLeadRows, MaxLeads)
    /\ session = NoItem
    /\ last = NoCall
    /\ expected = Null
    /\ user = Null /\ isLoading = TRUE
    /\ now = 0 /\ inflight = {}
    /\ page = [mounted |-> "LeadsPage", leads |-> Arr(<<>>),
               users |-> Arr(<<>>), isLoading |-> TRUE,
               isDataLoading |-> TRUE]
    /\ calls = NoCalls

\* fetchData, part_004:359-377: on mount, and after a save or a delete
FetchData ==
    \E leadsResp \in LeadsPageResponses(leads),
       usersResp \in LeadsPageResponses(users) :
        LET got == fetchData(rev, leadsResp, usersResp)
        IN  /\ page' = [page EXCEPT !.leads = got.leads, !.users = got.users,
                                    !.isDataLoading = FALSE,
                                    !.isLoading = FALSE]
            /\ last' = [op |-> "fetchData", leadsResp |-> leadsResp,
                        usersResp |-> usersResp]
            /\ UNCHANGED <<rev, users, leads, session, expected, uiVars,
                           svcVars, calls>>

LeadsPageNext ==
    \/ FetchData
    \/ DeleteUser

LeadsPageSpec == LeadsPageInit /\ [][LeadsPageNext]_vars

\* ---------------------------------------------------------------- UsersPage
\* two revisions of the page: page.rev = 1 is src/unnamed/part_004:1-174,
\* page.rev = 2 is src/unnamed/part_004:177-332
MaxFetching == 2
MaxClicks == 1

\* a handler without the check on the signed-in user's own id
handleDeleteUser_NoSelfCheck(currentUser, userId, confirmed) ==
    IF confirmed THEN "delete" ELSE "cancelled"

\* if (currentUser && userId === currentUser.id) { alert(...); return; }
\* if (window.confirm(...)) { ... await userService.deleteUser(userId) ... }
handleDeleteUser(currentUser, userId, confirmed) ==
    IF /\ currentUser.t = "obj" /\ has(currentUser.obj, "id")
       /\ userId = currentUser.obj.id
    THEN "refused"
    ELSE IF confirmed THEN "delete" ELSE "cancelled"

UsersPageInit ==
    /\ rev \in Revisions
    /\ users \in SeqsUpTo(UserRows, MaxUsers)
    /\ leads = <<>>
    /\ session = NoItem
    /\ last = NoCall
    /\ expected = Null
    /\ user \in { Obj(omit(u, "password")) :
                     u \in { x \in UserRows : x.id \in {"u1", "u2"} } }
    /\ isLoading = FALSE
    /\ now = 0 /\ inflight = {}
    /\ \E r \in 1..2 :
          page = [mounted |-> "UsersPage", rev |-> r, users |-> Arr(<<>>),
                  isLoading |-> (r = 2), isDataLoading |-> TRUE]
    /\ calls = [fetching |-> 0, effectDue |-> TRUE, clicks |-> 0]

\* useEffect(() => { fetchUsers(); }, [fetchUsers]) runs when fetchUsers is
\* a new function: on mount, and in revision 1 (useCallback over
\* [isDataLoading]) after every render that changed isDataLoading.  The
\* call sets isDataLoading (revision 1: when its render saw it false) and
\* sends the GET.
FetchUsersEffect ==
    /\ page.mounted = "UsersPage"
    /\ calls.effectDue
    /\ calls.fetching < MaxFetching
    /\ page' = [page EXCEPT !.isDataLoading = TRUE]
    /\ calls' = [calls EXCEPT !.fetching = @ + 1,
                              !.effectDue = (page.rev = 1
                                             /\ ~page.isDataLoading)]
    /\ UNCHANGED <<rev, users, leads, session, last, expected, uiVars,
                   svcVars>>

\* a getUsers of fetchUsers settles: try / catch / finally.  React runs a
\* pending effect before it renders the settled call's updates.
FetchUsersSettle ==
    /\ page.mounted = "UsersPage"
    /\ calls.fetching > 0
    /\ ~calls.effectDue \/ calls.fetching = MaxFetching
    /\ \E resp \in GetResponses(users) :
        LET fetchedUsers == userService_getUsers(rev, resp)
        IN  page' = [page EXCEPT
                        !.users = IF fetchedUsers.tag = "throw" THEN Arr(<<>>)
                                  ELSE orEmpty(fetchedUsers.val),
                        !.isDataLoading = FALSE,
                        !.isLoading = FALSE]
    /\ calls' = [calls EXCEPT !.fetching = @ - 1,
                              !.effectDue = (@ \/ (page.rev = 1
                                                   /\ page.isDataLoading))]
    /\ UNCHANGED <<rev, users, leads, session, last, expected, uiVars,
                   svcVars>>

\* handleDeleteUser(userId), part_004:85-102 and 244-261, for an id of the
\* list or another one; after a delete that returned, fetchUsers() is called
HandleDeleteUser ==
    /\ page.mounted = "UsersPage"
    /\ calls.clicks < MaxClicks
    /\ calls.fetching < MaxFetching
    /\ \E userId \in UserIds \cup { u.id : u \in UserRows },
          confirmed \in BOOLEAN :
        LET decision == handleDeleteUser(user, userId, confirmed)
        IN  IF decision # "delete"
            THEN /\ last' = [op |-> "handleDeleteUser", userId |-> userId,
                             confirmed |-> confirmed, decision |-> decision]
                 /\ calls' = [calls EXCEPT !.clicks = @ + 1]
                 /\ UNCHANGED <<users, page>>
            ELSE \E resp \in DeleteResponses(users, userId) :
                 LET res == userService_deleteUser(rev, userId, resp)
                     refetch == res.tag = "ok"
                 IN  /\ users' = IF resp.net /\ ok(resp)
                                 THEN withoutId(users, userId) ELSE users
                     /\ last' = [op |-> "handleDeleteUser",
                                 userId |-> userId, confirmed |-> confirmed,
                                 decision |-> decision, method |-> "POST",
                                 resp |-> resp, res |-> res]
                     /\ page' = [page EXCEPT
                            !.isLoading = (page.rev = 1 /\ refetch),
                            !.isDataLoading = (@ \/ refetch)]
                     /\ calls' = [calls EXCEPT
                            !.clicks = @ + 1,
                            !.fetching = IF refetch THEN @ + 1 ELSE @,
                            !.effectDue = (@ \/ (refetch /\ page.rev = 1
                                                 /\ ~page.isDataLoading))]
    /\ UNCHANGED <<rev, leads, session, expected, uiVars, svcVars>>

UsersPageNext ==
    \/ FetchUsersEffect
    \/ FetchUsersSettle
    \/ HandleDeleteUser

\* React runs a pending effect, and every request that was sent settles
UsersPageSpec ==
    /\ UsersPageInit /\ [][UsersPageNext]_vars
    /\ WF_vars(FetchUsersEffect) /\ WF_vars(FetchUsersSettle)

\* ------------------------------------------ AuthProvider, calls in flight
\* (src/unnamed/part_002:20-69) each operation sets isLoading, awaits its
\* authService call and, when the call settles, runs try / catch / finally.
\* `inflight` holds the calls that are awaited.

\* a provider whose setIsLoading(false) is not in a finally block
afterAuthCall_NoFinally(call, res, loading) ==
    [user |-> IF res.tag = "ok" /\ call.op # "logout" THEN res.val ELSE Null,
     isLoading |-> (res.tag = "throw" /\ loading)]

\* try { setUser(<result>) } catch { setUser(null) }
\* finally { setIsLoading(false) }; logout sets null on both paths
afterAuthCall(call, res, loading) ==
    [user |-> IF res.tag = "ok" /\ call.op # "logout" THEN res.val ELSE Null,
     isLoading |-> FALSE]

\* the mount effect starts initializeAuth
MountEffect ==
    /\ last = NoCall
    /\ isLoading' = TRUE
    /\ inflight' = {[op |-> "initializeAuth"]}
    /\ last' = [op |-> "begin", call |-> [op |-> "initializeAuth"]]
    /\ UNCHANGED <<rev, users, leads, session, expected, user, now, pageVars>>

\* login(credentials) or logout() is called: setIsLoading(true), then the
\* authService call runs up to its first await (logout has removed the
\* item by then)
BeginAuthCall ==
    /\ last # NoCall
    /\ Cardinality(inflight) < MaxInflight
    /\ \E call \in { [op |-> "logout"] }
                   \cup { [op |-> "login", credentials |-> c] :
                            c \in { x \in CredentialInputs :
                                      x.email = <<"a">> } } :
        /\ isLoading' = TRUE
        /\ inflight' = inflight \cup {call}
        /\ session' = IF call.op = "logout"
                      THEN authService_logout(session).store ELSE session
        /\ last' = [op |-> "begin", call |-> call]
    /\ UNCHANGED <<rev, users, leads, expected, user, now, pageVars>>

\* an awaited call settles, normally or with an error
SettleAuthCall ==
    \E call \in inflight :
      \E env \in IF call.op = "login" THEN LoginEnvs(rev, users)
                  ELSE {[transport |-> "none"]} :
        LET out == IF call.op = "login"
                   THEN authService_login(rev, session, users,
                                          call.credentials, env)
                   ELSE IF call.op = "initializeAuth"
                        THEN authService_getCurrentUser(rev, session)
                   ELSE [res |-> Ok(Undefined), store |-> session]
            after == afterAuthCall(call, out.res, isLoading)
        IN  /\ session' = out.store
            /\ user' = after.user
            /\ isLoading' = after.isLoading
            /\ inflight' = inflight \ {call}
            /\ last' = [op |-> "settle", call |-> call, res |-> out.res]
            /\ UNCHANGED <<rev, users, leads, expected, now, pageVars>>

AuthLiveNext ==
    \/ MountEffect
    \/ BeginAuthCall
    \/ SettleAuthCall

\* React runs the mount effect, and every awaited call settles
AuthLiveSpec ==
    /\ UiInit /\ [][AuthLiveNext]_vars
    /\ WF_vars(MountEffect) /\ WF_vars(SettleAuthCall)

\* ===================================================================
\* Claims
\* ===================================================================

\* the backend answered the login's request properly: the Users rows to the
\* GET, or the login endpoint's envelope
BackendAnswered(env) ==
    IF has(env, "resp") THEN env.resp.net /\ ok(env.resp)
                             /\ env.resp.body.k = "json"
                             /\ isArray(env.resp.body.val)
    ELSE env.transport = "answer"

\* some identity's email equals the supplied one (trimmed, ignoring case)
knownEmail(rows, email) ==
    \E i \in 1..Len(rows) : emailMatches(rows[i], trim(email))

\* C1: getUsers and getLeads always complete normally with an array, for
\* every outcome of the collection GET.
C1_AlwaysArray ==
    last.op \in {"getUsers", "getLeads"} =>
        last.res.tag = "ok" /\ isArray(last.res.val)

\* C2: a collection GET answered with 204, an empty body or an unparseable
\* body gives the empty array; the same no-content answer to any other
\* operation gives undefined.
C2_NoContent ==
    /\ ( /\ last.op \in {"getUsers", "getLeads"}
         /\ last.resp.net /\ ok(last.resp)
         /\ (last.resp.status = 204 \/ last.resp.body \in {EmptyText, GarbageText})
       ) => last.gw = Ok(Arr(<<>>)) /\ last.res = Ok(Arr(<<>>))
    /\ ( /\ last.op = "deleteUser"
         /\ last.resp.net /\ ok(last.resp)
         /\ (last.resp.status = 204 \/ last.resp.body = EmptyText)
       ) => last.gw = Ok(Undefined)

\* the call failed with an error that carries the response's status and body
failedWithStatus(result, resp) ==
    /\ result.tag = "throw"
    /\ has(result.err, "status") /\ result.err.status = resp.status
    /\ has(result.err, "raw") /\ result.err.raw = resp.body

\* C3 as claimed: every request through apiRequest, GET or POST, fails on a
\* non-success status with an error carrying status and body, and the caller
\* sees that failure.
C3_EveryFailureSurfaced ==
    ( /\ last.op \in {"getUsers", "getLeads", "deleteUser"}
      /\ last.resp.net /\ ~ok(last.resp)
    ) => failedWithStatus(last.gw, last.resp) /\ last.res = last.gw

\* C3 as amended: every POST made through apiRequest that is answered
\* with a non-success status fails with an error carrying status and body,
\* and the caller sees that failure.
C3_PostFailureSurfaced ==
    ( /\ last.op \in {"getUsers", "getLeads", "deleteUser"}
      /\ last.method = "POST"
      /\ last.resp.net /\ ~ok(last.resp)
    ) => failedWithStatus(last.gw, last.resp) /\ last.res = last.gw

C3_Witness ==
    /\ last.op = "deleteUser"
    /\ last.resp.net /\ last.resp.status = 500
    /\ last.res.tag = "throw" /\ last.res.err.status = 500

\* C4: neither the stored session value nor an identity returned by login or
\* getCurrentUser has a password field.
C4_NoPasswordExposed ==
    /\ (session.k = "json" /\ session.val.t = "obj")
           => ~has(session.val.obj, "password")
    /\ ( /\ last.op \in {"login", "getCurrentUser"}
         /\ last.res.tag = "ok" /\ last.res.val.t = "obj"
       ) => ~has(last.res.val.obj, "password")

\* C5: a login refused for a wrong password (known email) fails exactly as
\* a login with an email no identity has, against the same backend.
C5_UniformRefusal ==
    ( /\ last.op = "login" /\ last.res.tag = "throw"
      /\ BackendAnswered(last.env)
      /\ knownEmail(users, last.credentials.email)
    ) => \A c2 \in CredentialInputs :
            ~knownEmail(users, c2.email) =>
                authService_login(rev, session, users, c2, last.env).res
                    = last.res

\* C6: the same login with the email in another letter case has the same
\* outcome.
C6_EmailCaseIrrelevant ==
    last.op = "login" =>
        \A c2 \in CredentialInputs :
            ( /\ c2.password = last.credentials.password
              /\ toLowerCase(c2.email) = toLowerCase(last.credentials.email)
            ) => authService_login(rev, session, users, c2, last.env).res
                     = last.res

\* C7: login succeeds iff the first identity whose email equals the supplied
\* one ignoring case has exactly the supplied password, and then it is that
\* identity that is signed in.
C7_FirstEmailMatchDecides ==
    ( last.op = "login" /\ BackendAnswered(last.env) ) =>
        LET email == trim(last.credentials.email)
            password == trim(last.credentials.password)
            i == firstIndex({ k \in 1..Len(users) :
                                  emailMatches(users[k], email) })
            granted == i # 0 /\ passwordMatches(users[i], password)
        IN  /\ (last.res.tag = "ok") = granted
            /\ granted => /\ last.res.val.obj.id = users[i].id
                          /\ last.res.val.obj.email = users[i].email

\* C8: surrounding whitespace in the email and the password does not change
\* the outcome of login.
C8_WhitespaceIrrelevant ==
    last.op = "login" =>
        \A c2 \in CredentialInputs :
            ( /\ trim(c2.email) = trim(last.credentials.email)
              /\ trim(c2.password) = trim(last.credentials.password)
            ) => authService_login(rev, session, users, c2, last.env).res
                     = last.res

\* C9: getCurrentUser never raises; it returns an identity only when the
\* stored record has id, email and role, and after it returned null the
\* store holds no record.
C9_CorruptSessionCleared ==
    last.op = "getCurrentUser" =>
        /\ last.res.tag = "ok"
        /\ last.res.val # Null => validStoredUser(last.res.val)
        /\ last.res.val = Null => session = NoItem

\* the store changes only by a successful login, which writes the identity
\* it returns, and by logout, which empties it
storeWrittenByLoginAndLogout ==
    /\ (last'.op = "login" /\ last'.res.tag = "ok")
           => session' = JSONstringify(last'.res.val)
    /\ last'.op = "logout" => session' = NoItem

\* C10 as claimed: only a successful login and logout change the store, and
\* getCurrentUser returns the identity of the latest successful login, or
\* null after logout.
C10_StoreFollowsLoginLogout ==
    [][ /\ storeWrittenByLoginAndLogout
        /\ session' # session =>
               \/ last'.op = "login" /\ last'.res.tag = "ok"
               \/ last'.op = "logout"
        /\ last'.op = "getCurrentUser" => last'.res = Ok(expected)
      ]_vars

\* C10 as amended: the store also changes when getCurrentUser clears a
\* stored record that lacks id, email or role; getCurrentUser returns the
\* identity of the latest successful login when that identity has id,
\* email and role, and null after logout.
C10_StoreFollowsLoginLogoutOrClear ==
    [][ /\ storeWrittenByLoginAndLogout
        /\ session' # session =>
               \/ last'.op = "login" /\ last'.res.tag = "ok"
               \/ last'.op = "logout"
               \/ /\ last'.op = "getCurrentUser"
                  /\ ~validStoredUser(session.val)
                  /\ session' = NoItem
        /\ last'.op = "getCurrentUser" =>
               /\ expected = Null => last'.res = Ok(Null)
               /\ (expected # Null /\ validStoredUser(expected))
                      => last'.res = Ok(expected) /\ session' = session
      ]_vars

C10_Witness ==
    /\ last.op = "getCurrentUser"
    /\ expected # Null /\ validStoredUser(expected)
    /\ last.res = Ok(expected)
    /\ session = JSONstringify(expected)

\* the roles a hasRole argument names
rolesNamed(roles) ==
    IF isArray(roles) THEN { roles.items[i] : i \in 1..Len(roles.items) }
    ELSE { roles.role }

\* C11: hasRole answers true exactly when an identity is current and its
\* role is the role given, or one of the roles given; it answers false for
\* every argument when no identity is current.
C11_HasRoleIsMembership ==
    last.op = "hasRole" =>
        /\ last.answer = ( /\ user # Null
                           /\ has(user.obj, "role")
                           /\ user.obj.role \in rolesNamed(last.roles) )
        /\ user = Null => ~last.answer

C11_Witness ==
    /\ last.op = "hasRole" /\ isArray(last.roles)
    /\ user # Null /\ has(user.obj, "role") /\ user.obj.role = "Manager"
    /\ last.answer

\* C12: no record returned by getUsers or getUserById has a password field,
\* whatever the gateway returned, also when the rows carry a password.
C12_NoPasswordInUserRecords ==
    /\ (last.op = "getUsers" /\ last.res.tag = "ok") =>
           /\ isArray(last.res.val)
           /\ \A i \in 1..Len(last.res.val.items) :
                  ~has(last.res.val.items[i], "password")
    /\ (last.op = "getUserById" /\ last.res.tag = "ok") =>
           \/ last.res.val = Undefined
           \/ last.res.val.t = "obj" /\ ~has(last.res.val.obj, "password")

C12_Witness ==
    /\ last.op = "getUserById" /\ last.res.tag = "ok"
    /\ last.res.val.t = "obj"
    /\ \E i \in 1..Len(users) :
           /\ users[i].id = last.res.val.obj.id
           /\ has(users[i], "password")

C14_UpdateUserData ==
    last.op = "updateUser" =>
        /\ ~has(last.body.data, "email")
        /\ has(last.body.data, "password")
               <=> truthyChars(last.form, "passwordInput")
        /\ has(last.body.data, "password") =>
               last.body.data.password = last.form.passwordInput

C14_Witness ==
    /\ last.op = "updateUser"
    /\ has(last.form, "email")
    /\ has(last.body.data, "password") /\ last.body.data.password = <<"s">>
    /\ last.res.tag = "ok"

\* the store answered with a success envelope that has the identifier and
\* not the record
bareIdReply(resp) ==
    /\ resp.net /\ ok(resp) /\ resp.body.k = "json"
    /\ resp.body.val.t = "obj"
    /\ DOMAIN resp.body.val.obj = {"success", "id"}

\* C15: an add or update answered with a bare identifier succeeds and
\* returns the caller's input with that identifier merged in.
C15_BareIdFallback ==
    ( /\ last.op \in {"addUser", "updateUser", "addLead", "updateLead"}
      /\ bareIdReply(last.resp)
    ) => /\ last.res.tag = "ok"
         /\ last.res.val.t = "obj"
         /\ has(last.res.val.obj, "id")
         /\ last.res.val.obj.id = last.resp.body.val.obj.id
         /\ \A f \in DOMAIN last.input \ {"passwordInput"} :
                has(last.res.val.obj, f)
                    /\ last.res.val.obj[f] = last.input[f]

\* C16: after addLead on an empty store, getLeads gives exactly one
\* record, with every submitted field, an identifier, and createdAt equal
\* to updatedAt, whatever the clock did while addLead ran.
C16_AddThenListRoundTrip ==
    (last.op = "addLead" /\ last.onEmpty /\ last.applied) =>
        LET got == leadService_getLeads(rev, Http(200, JsonText(Arr(leads))))
        IN  /\ got.tag = "ok" /\ isArray(got.val)
            /\ Len(got.val.items) = 1
            /\ \A f \in DOMAIN last.input :
                   has(got.val.items[1], f)
                       /\ got.val.items[1][f] = last.input[f]
            /\ has(got.val.items[1], "id")
            /\ has(got.val.items[1], "createdAt")
            /\ has(got.val.items[1], "updatedAt")
            /\ got.val.items[1].createdAt = got.val.items[1].updatedAt

\* C17: the updatedAt that updateLead sends is the instant of the call,
\* also when the caller's fields have an updatedAt of their own.
C17_UpdateSendsCurrentInstant ==
    last.op = "updateLeadSend" =>
        /\ has(last.body.data, "updatedAt")
        /\ last.body.data.updatedAt = last.sent

\* the stored lead with this identifier
storedLead(id) == leads[indexOfId(leads, id)]

\* C18: after a successful updateLead the lead's stored updatedAt is
\* greater than it was before the call, or is the instant of the call when
\* the lead had none.
C18_UpdatedAtStrictlyIncreases ==
    ( /\ last.op = "updateLead" /\ last.applied /\ last.res.tag = "ok"
      /\ holdsId(leads, last.body.id)
    ) => /\ has(storedLead(last.body.id), "updatedAt")
         /\ IF has(last.before.obj, "updatedAt")
            THEN storedLead(last.body.id).updatedAt
                     > last.before.obj.updatedAt
            ELSE storedLead(last.body.id).updatedAt
                     \in last.sent..last.arrived

\* C19: no step makes a stored lead's updatedAt smaller, whatever the
\* order in which the requests in flight reach the store.
C19_UpdatedAtNeverDecreases ==
    [][ \A i \in 1..Len(leads) : \A j \in 1..Len(leads') :
            ( leads[i].id = leads'[j].id /\ has(leads[i], "updatedAt") )
                => /\ has(leads'[j], "updatedAt")
                   /\ leads'[j].updatedAt >= leads[i].updatedAt
      ]_vars

\* the store refused the delete: it does not hold the identifier
refusedDelete(resp) ==
    /\ resp.net /\ ok(resp) /\ resp.body.k = "json"
    /\ resp.body.val.t = "obj"
    /\ has(resp.body.val.obj, "success") /\ ~resp.body.val.obj.success

\* C20: a delete that the store refuses because it does not hold the
\* identifier fails with an error.
C20_RefusedDeleteFails ==
    ( /\ last.op \in {"deleteUser", "deleteLead"}
      /\ refusedDelete(last.resp)
    ) => last.res.tag = "throw"

\* a new-user form with one of name, email, role, passwordInput missing or
\* empty
incompleteForm(form) ==
    \/ ~truthyAtom(form, "name") \/ ~truthyChars(form, "email")
    \/ ~truthyAtom(form, "role") \/ ~truthyChars(form, "passwordInput")

\* C21: saving a new user whose form lacks name, email, role or
\* passwordInput (missing or empty) ends with the validation error and
\* without a request: no body was built and no response was read.
C21_IncompleteFormNeverSent ==
    ( /\ last.op \in {"saveUser", "addUser"}
      /\ incompleteForm(last.form)
    ) => /\ last.op = "saveUser"
         /\ last.res = Throw(Error(MsgMissingFields))
         /\ ~has(last, "body") /\ ~has(last, "resp")

C21_Witness ==
    /\ last.op = "saveUser"
    /\ has(last.form, "passwordInput") /\ last.form.passwordInput = <<>>
    /\ last.res.tag = "throw"

\* what the Gateway handed the userService method recorded in `last`
gatewayResult ==
    apiRequest(rev, usersSheet(rev), last.method, last.resp)

\* C22: a userService method whose Gateway call returned normally returns
\* normally itself, whatever the Gateway returned (the absent result of an
\* empty or 204 answer to a POST included).
C22_NoFailureBeyondGateway ==
    ( /\ last.op \in {"getUsers", "getUserById", "addUser", "updateUser",
                      "deleteUser"}
      /\ gatewayResult.tag = "ok"
    ) => last.res.tag = "ok"

\* the exchange failed: fetch rejected, or the status is not a success
failedExchange(resp) == ~resp.net \/ ~ok(resp)

C23_EitherFailureEmptiesBoth ==
    ( /\ last.op = "fetchData"
      /\ failedExchange(last.leadsResp) \/ failedExchange(last.usersResp)
    ) => page.leads = Arr(<<>>) /\ page.users = Arr(<<>>)

\* C23: when getLeads or getUsers throws, the page holds neither result;
\* when both return, it holds what each returned (the empty array for an
\* absent result), which for a failed GET that the Gateway degraded is the
\* empty array beside the other collection.
C23_JoinFailsOnServiceError ==
    last.op = "fetchData" =>
        LET fetchedLeads == leadService_getLeads(rev, last.leadsResp)
            fetchedUsers == userService_getUsers(rev, last.usersResp)
        IN  IF fetchedLeads.tag = "throw" \/ fetchedUsers.tag = "throw"
            THEN page.leads = Arr(<<>>) /\ page.users = Arr(<<>>)
            ELSE /\ page.leads = orEmpty(fetchedLeads.val)
                 /\ page.users = orEmpty(fetchedUsers.val)

C23_Witness ==
    /\ last.op = "fetchData"
    /\ leadService_getLeads(rev, last.leadsResp).tag = "throw"
    /\ userService_getUsers(rev, last.usersResp).tag = "ok"
    /\ userService_getUsers(rev, last.usersResp).val # Arr(<<>>)
    /\ page.users = Arr(<<>>)

\* the identities of the loaded set whose id is the lead's assignedToId
assignees(lead) ==
    { k \in 1..Len(page.users.items) :
        /\ has(lead, "assignedToId")
        /\ page.users.items[k].id = lead.assignedToId }

\* the list the Leads page shows
shownLeads == processedLeads(page.leads, page.users)

\* C25 as stated: assignedToName is the name of the identity the lead is
\* assigned to, and "Unassigned" when there is none in the loaded set.
C25_NameOfAssignee ==
    (page.mounted = "LeadsPage" /\ shownLeads.tag = "ok") =>
        \A i \in 1..Len(shownLeads.val.items) :
            LET lead == page.leads.items[i]
            IN  shownLeads.val.items[i].assignedToName
                  = IF assignees(lead) = {} THEN "Unassigned"
                    ELSE page.users.items[firstIndex(assignees(lead))].name

\* C25: assignedToName is the name of the first identity of the loaded set
\* whose id is the lead's assignedToId when that name is not empty, and
\* "Unassigned" otherwise; a name stored with the lead is never shown, and
\* the lead's other fields are shown as loaded.
C25_NameOfAssigneeOrUnassigned ==
    (page.mounted = "LeadsPage" /\ shownLeads.tag = "ok") =>
        /\ Len(shownLeads.val.items) = Len(page.leads.items)
        /\ \A i \in 1..Len(shownLeads.val.items) :
            LET lead == page.leads.items[i]
                named == { k \in assignees(lead) :
                             page.users.items[k].name # "" }
            IN  /\ shownLeads.val.items[i].assignedToName
                      = IF assignees(lead) # {}
                           /\ firstIndex(assignees(lead)) \in named
                        THEN page.users.items[firstIndex(assignees(lead))].name
                        ELSE "Unassigned"
                /\ omit(shownLeads.val.items[i], "assignedToName")
                      = omit(lead, "assignedToName")

C25_Witness ==
    /\ page.mounted = "LeadsPage" /\ shownLeads.tag = "ok"
    /\ \E i \in 1..Len(shownLeads.val.items) :
          /\ has(page.leads.items[i], "assignedToName")
          /\ page.leads.items[i].assignedToName = "stale"
          /\ shownLeads.val.items[i].assignedToName = "n1"

\* C26: after the Users page has mounted, eventually no fetch of the user
\* collection is in flight and isDataLoading is false, and stays so (the
\* user acts at most MaxClicks times).
C26_FetchingEnds ==
    <>[](calls.fetching = 0 /\ ~page.isDataLoading)

\* C30: a delete request leaves the Users page only for an id other than
\* the signed-in user's, and only after the confirmation was accepted.
C30_NeverDeletesSelf ==
    (last.op = "handleDeleteUser" /\ has(last, "resp")) =>
        /\ last.confirmed
        /\ last.userId # user.obj.id

C30_Witness ==
    /\ last.op = "handleDeleteUser"
    /\ last.userId = user.obj.id /\ last.confirmed
    /\ last.decision = "refused" /\ ~has(last, "resp")
    /\ holdsId(users, user.obj.id)

\* C27: while no auth operation is in flight, AuthProvider's user is an
\* identity exactly when the session store holds one, and it is that one.
C27_UserMirrorsStore ==
    ~isLoading =>
        /\ (user # Null) <=> (session # NoItem)
        /\ user # Null => JSONparse(session) = Ok(user)

\* C28: ProtectedRoute renders its children only when isLoading is false,
\* a user is present and, when allowedRoles is given, the user's role is
\* one of them; while isLoading is true it renders the spinner and never a
\* redirect.
C28_ChildrenOnlyWhenAllowed ==
    last.op = "ProtectedRoute" =>
        /\ last.rendered = "children" =>
              /\ ~last.isLoading
              /\ last.user.t = "obj"
              /\ isArray(last.allowedRoles) =>
                    /\ has(last.user.obj, "role")
                    /\ \E i \in 1..Len(last.allowedRoles.items) :
                          last.allowedRoles.items[i] = last.user.obj.role
        /\ last.isLoading => last.rendered = "Spinner"

\* a route rendered during the startup check of a stored session
C28_Witness ==
    /\ last.op = "ProtectedRoute"
    /\ last.isLoading /\ last.user = Null /\ session # NoItem
    /\ isArray(last.allowedRoles)
    /\ last.rendered = "Spinner"

\* C29: once the operations that were started have settled, normally or
\* with an error, isLoading is false; and whenever isLoading is true it
\* becomes false again.
C29_LoadingEnds ==
    /\ []((last # NoCall /\ inflight = {}) => ~isLoading)
    /\ (isLoading ~> ~isLoading)

\* a login that threw has settled as the only call in flight
C29_Witness ==
    /\ last.op = "settle" /\ last.call.op = "login"
    /\ last.res.tag = "throw"
    /\ inflight = {} /\ ~isLoading

====
